---- MODULE Spec2Model ----
(***************************************************************************)
(* Model of the alert actionability engine of opslane:                     *)
(*   - the structured-output retry chain of BaseAgent (agents/base.py),    *)
(*   - the LLM predictor AlertPredictor.predict (ml/services/prediction),  *)
(*   - the feedback recorder (slack.py, slack/handlers/action_handlers.py, *)
(*     services/alert.py) writing AlertConfiguration rows,                 *)
(*   - the trained classifier AlertClassifier.classify (ml/alert_classifier)*)
(*     with its model reload, scoring and explanation steps,               *)
(*   - the labels of SlackBot.handle_message_events and _check_actionable, *)
(*   - get_avg_slack_responses of the feature engineer (ml/utils.py),      *)
(*   - get_alert_configuration_stats and get_or_create_alert_configuration *)
(*     (services/alert.py),                                                *)
(*   - the Historical Store (ml/vector_store.py) with                      *)
(*     fetch_historical_data and the prompt of predict.                    *)
(* Python None, absent values and falsy results are the integer 0 in       *)
(* integer-typed fields and the string "None" in string-typed fields.      *)
(***************************************************************************)
EXTENDS Integers, Sequences, FiniteSets, TLC

VARIABLES
    \* ---- BaseAgent.chain_with_retry (one call of run_chain at a time)
    pc,            \* Idle | Invoking | Validating | RetryPending | Succeeded | Exhausted
    agent,         \* the agent whose run() built the input of the current call
    input,         \* the input dict handed to chain_with_retry.invoke
    idx,           \* index of the runnable being run: 0 = chain, 1..3 = fallbacks
    tool_output,   \* the last output of structured_llm (include_raw=True)
    first_error,   \* RunnableWithFallbacks: first handled exception
    last_error,    \* RunnableWithFallbacks: last handled exception
    invocations,   \* number of model invocations made by the current call
    outcome,       \* what run_chain gave its caller
    \* ---- AlertPredictor.predict / AlertClassifierAgent.run
    predict_out,   \* what the last predict call gave its caller
    agent_run_out, \* what the last AlertClassifierAgent.run gave its caller
    \* ---- relational store and the feedback recorder
    configs,       \* AlertConfiguration rows by provider_id (committed state)
    sess,          \* per DB session of mark_alert_configuration_as_noisy
    last_feedback, \* the last feedback event a handler finished processing
    \* ---- AlertClassifier
    model_file,    \* alert_classifier_model.joblib on disk
    clf,           \* the AlertClassifier instance
    classify_out,  \* what the last classify call gave its caller
    load_log,      \* history of _load_model: file reads and successful loads
    loader,        \* per thread inside _load_model: its position and locals
    \* ---- settings and the scoring steps
    settings,      \* app.core.config.settings
    message_out,   \* what handle_message_events last derived for a message
    avg_out,       \* what the last get_avg_slack_responses call returned
    \* ---- the rest of the relational store and its readers
    mark_out,      \* what the last mark_alert_configuration_as_noisy returned
    alerts,        \* Alert rows (committed state)
    stats_out,     \* what the last get_alert_configuration_stats call gave
    goc,           \* per DB session of get_or_create_alert_configuration
    \* ---- Historical Store and the prompt of AlertPredictor.predict
    store,         \* documents of the alert_embeddings collection
    hist_out,      \* the last fetch_historical_data call: searches and result
    predict_run    \* the predict call in progress: its position and locals

chainVars == <<pc, agent, input, idx, tool_output, first_error, last_error,
               invocations, outcome>>
predictVars == <<predict_out, agent_run_out>>
dbVars == <<configs, sess, last_feedback, mark_out>>
clfVars == <<model_file, clf, classify_out>>
loadVars == <<load_log, loader>>
scoreVars == <<settings, message_out, avg_out>>
ctxVars == <<alerts, stats_out, goc, store, hist_out, predict_run>>
vars == <<pc, agent, input, idx, tool_output, first_error, last_error,
          invocations, outcome, predict_out, agent_run_out,
          configs, sess, last_feedback, model_file, clf, classify_out,
          load_log, loader, settings, message_out, avg_out, mark_out,
          alerts, stats_out, goc, store, hist_out, predict_run>>

(***************************************************************************)
(* Bounds of the model                                                     *)
(***************************************************************************)
\* distinct raw model outputs (and distinct parse errors) told apart
MaxRaw == 2

(***************************************************************************)
(* BaseAgent: structured output with retry                                 *)
(***************************************************************************)
\* fallbacks=[fallback_chain] * 3
NumFallbacks == 3

RawOutputs == 1..MaxRaw

\* what llm.with_structured_output(schema, include_raw=True) yields:
\* raw message, parsed object (0 = None) and parsing_error (0 = None)
ToolOutputs ==
    {[raw |-> r, parsed |-> r, parsing_error |-> 0] : r \in RawOutputs}
    \cup {[raw |-> r, parsed |-> 0, parsing_error |-> e] :
              r \in RawOutputs, e \in RawOutputs}
    \cup {[raw |-> r, parsed |-> 0, parsing_error |-> 0] : r \in RawOutputs}

NoOutput == [raw |-> 0, parsed |-> 0, parsing_error |-> 0]
NoError == [type |-> "None", msg |-> "", raw |-> 0, parse_error |-> 0]

\* ValueError(f"Error parsing your output! ... Output: {raw_output}. \n Parse error: {error}")
ParsingValueError(out) ==
    [type |-> "ValueError", msg |-> "Error parsing your output!",
     raw |-> out.raw, parse_error |-> out.parsing_error]

\* ValueError("You did not use the provided tool! ...")
NoToolValueError ==
    [type |-> "ValueError", msg |-> "You did not use the provided tool!",
     raw |-> 0, parse_error |-> 0]

\* inputs["messages"] on a dict without that key
MessagesKeyError ==
    [type |-> "KeyError", msg |-> "messages", raw |-> 0, parse_error |-> 0]

\* check_output: the exception it raises, NoError when it returns tool_output
CheckOutput(out) ==
    IF out.parsing_error # 0 THEN ParsingValueError(out)
    ELSE IF out.parsed = 0 THEN NoToolValueError
    ELSE NoError

\* the agents built on the wrapper and the input dict their run() passes:
\* PagerDutyAgent passes {"messages": [...]}, RCAAgent passes named variables
Agents == {"PagerDutyAgent", "RCAAgent"}

UserTurn == [role |-> "user", text |-> "question", error |-> NoError]

PagerDutyInput ==
    [keys |-> {"messages"}, messages |-> <<UserTurn>>, error |-> NoError]

RCAInput ==
    [keys |-> {"alert_description", "log_lines", "code_changes"},
     messages |-> <<>>, error |-> NoError]

AgentInput(a) == IF a = "PagerDutyAgent" THEN PagerDutyInput ELSE RCAInput

\* the synthetic turn insert_errors appends
RetryTurn(err) ==
    [role |-> "user",
     text |-> "Retry. You are required to fix the parsing errors",
     error |-> err]

\* insert_errors: may it read inputs["messages"]?
InsertErrorsOk(inp) == "messages" \in inp.keys

\* insert_errors: the dict it returns ({"messages": messages}); the list is the
\* caller's list, appended in place, so later fallbacks see every earlier turn
InsertErrors(inp) ==
    [keys |-> {"messages"},
     messages |-> Append(inp.messages, RetryTurn(inp.error)),
     error |-> inp.error]

\* a wrapper that counts the first runnable as no attempt and so runs one
\* fallback too many
HasNextRunnableOffByOne(i) == i < NumFallbacks + 1

\* RunnableWithFallbacks: is there a runnable left after runnable i?
HasNextRunnable(i) == i < NumFallbacks

\* RunnableWithFallbacks raises first_error when every runnable failed
RaisedOnExhaustion(first, last) == first

NoOutcome == [kind |-> "none", parsed |-> 0, error |-> NoError]

\* BaseAgent.run_chain: the caller starts chain_with_retry.invoke(input_data)
RunChain(a) ==
    /\ pc \in {"Idle", "Succeeded", "Exhausted"}
    /\ pc' = "Invoking"
    /\ agent' = a
    /\ input' = AgentInput(a)
    /\ idx' = 0
    /\ tool_output' = NoOutput
    /\ first_error' = NoError
    /\ last_error' = NoError
    /\ invocations' = 0
    /\ outcome' = NoOutcome
    /\ UNCHANGED <<predictVars, dbVars, clfVars, scoreVars, loadVars, ctxVars>>

\* prompt | structured_llm: one model invocation, answering with out
Invoke(out) ==
    /\ pc = "Invoking"
    /\ pc' = "Validating"
    /\ tool_output' = out
    /\ invocations' = invocations + 1
    /\ UNCHANGED <<agent, input, idx, first_error, last_error, outcome>>
    /\ UNCHANGED <<predictVars, dbVars, clfVars, scoreVars, loadVars, ctxVars>>

\* RunnableWithFallbacks.invoke, "except self.exceptions_to_handle as e":
\* remember e, hand it to the next runnable under exception_key="error",
\* or raise once the runnables are used up
HandleException(e) ==
    /\ first_error' = IF first_error = NoError THEN e ELSE first_error
    /\ last_error' = e
    /\ IF HasNextRunnable(idx)
       THEN /\ idx' = idx + 1
            /\ input' = [input EXCEPT !.error = e]
            /\ pc' = "RetryPending"
            /\ outcome' = outcome
       ELSE /\ idx' = idx
            /\ input' = input
            /\ pc' = "Exhausted"
            /\ outcome' = [kind |-> "raised", parsed |-> 0,
                           error |-> RaisedOnExhaustion(first_error', e)]

\* ... | check_output, then run_chain's return result["parsed"]
Validate ==
    /\ pc = "Validating"
    /\ IF CheckOutput(tool_output) = NoError
       THEN /\ pc' = "Succeeded"
            /\ outcome' = [kind |-> "returned", parsed |-> tool_output.parsed,
                           error |-> NoError]
            /\ UNCHANGED <<input, idx, first_error, last_error>>
       ELSE HandleException(CheckOutput(tool_output))
    /\ UNCHANGED <<agent, tool_output, invocations>>
    /\ UNCHANGED <<predictVars, dbVars, clfVars, scoreVars, loadVars, ctxVars>>

\* fallback_chain = insert_errors | chain: the insert_errors step of fallback idx
InsertErrorsStep ==
    /\ pc = "RetryPending"
    /\ IF InsertErrorsOk(input)
       THEN /\ input' = InsertErrors(input)
            /\ pc' = "Invoking"
            /\ UNCHANGED <<idx, first_error, last_error, outcome>>
       ELSE HandleException(MessagesKeyError)
    /\ UNCHANGED <<agent, tool_output, invocations>>
    /\ UNCHANGED <<predictVars, dbVars, clfVars, scoreVars, loadVars, ctxVars>>

ChainStep == (\E out \in ToolOutputs : Invoke(out)) \/ Validate \/ InsertErrorsStep

NextChain == (\E a \in Agents : RunChain(a)) \/ ChainStep

(***************************************************************************)
(* AlertPredictor.predict and AlertClassifierAgent.run                      *)
(***************************************************************************)
\* settings.PREDICTION_CONFIDENCE_THRESHOLD = 0.5, in tenths
PredictionConfidenceThreshold10 == 5

\* scores a model may answer with, in tenths (-0.5 .. 1.5)
ScoreSamples == {-5, 0, 4, 5, 6, 10, 15}

\* what LLMClient.get_completion returns: None when the API call raised,
\* else the message text: not JSON, JSON holding the schema's fields, or JSON
\* that lacks them
Completions ==
    {[kind |-> "None", has_score |-> FALSE, score10 |-> 0],
     [kind |-> "text", has_score |-> FALSE, score10 |-> 0],
     [kind |-> "json", has_score |-> FALSE, score10 |-> 0]}
    \cup {[kind |-> "json", has_score |-> TRUE, score10 |-> s] : s \in ScoreSamples}

NoCompletion == [kind |-> "None", has_score |-> FALSE, score10 |-> 0]

\* json.loads(alert_prediction)
JsonLoads(c) ==
    IF c.kind = "None" THEN "TypeError"
    ELSE IF c.kind = "text" THEN "JSONDecodeError"
    ELSE "ok"

\* AlertClassifierOutput: score, reasoning and additional_info are required;
\* score is a plain float, no range is declared on it
AlertClassifierOutputValid(c) == c.kind = "json" /\ c.has_score

NoPredictOut ==
    [kind |-> "none", error |-> "None", is_error_dict |-> FALSE,
     payload |-> NoCompletion]

\* predict, from get_completion on: try json.loads, except JSONDecodeError
PredictResult(c) ==
    IF JsonLoads(c) = "ok"
    THEN [kind |-> "returned", error |-> "None", is_error_dict |-> FALSE,
          payload |-> c]
    ELSE IF JsonLoads(c) = "JSONDecodeError"
    THEN [kind |-> "returned", error |-> "Failed to parse LLM output as JSON",
          is_error_dict |-> TRUE, payload |-> c]
    ELSE [kind |-> "raised", error |-> "TypeError", is_error_dict |-> FALSE,
          payload |-> c]

Predict(c) ==
    /\ predict_out' = PredictResult(c)
    /\ UNCHANGED <<agent_run_out, chainVars, dbVars, clfVars, scoreVars, loadVars, ctxVars>>

\* thresholds an operator may configure, in tenths
Thresholds == {0, PredictionConfidenceThreshold10, 6}

\* app.core.config.settings with PREDICTION_CONFIDENCE_THRESHOLD set to t
Settings(t) == [PREDICTION_CONFIDENCE_THRESHOLD10 |-> t]

\* the label handle_message_events would give a score that is one threshold
\* step too generous
AlertClassificationAtLeast(score10) ==
    IF score10 >= settings.PREDICTION_CONFIDENCE_THRESHOLD10 THEN "Actionable"
    ELSE "Potentially Noisy"

\* SlackBot.handle_message_events: the label put into the feedback buttons
AlertClassification(score10) ==
    IF score10 > settings.PREDICTION_CONFIDENCE_THRESHOLD10 THEN "Actionable"
    ELSE "Potentially Noisy"

\* AlertClassifierAgent.run reads self.agent_executor, which neither the class
\* nor BaseAgent ever assigns
AgentExecutorDefined == FALSE

AlertClassifierAgentRunResult(c) ==
    IF ~AgentExecutorDefined
    THEN [kind |-> "raised", error |-> "AttributeError", is_error_dict |-> FALSE,
          payload |-> NoCompletion]
    ELSE IF AlertClassifierOutputValid(c)
    THEN [kind |-> "returned", error |-> "None", is_error_dict |-> FALSE,
          payload |-> c]
    ELSE [kind |-> "returned", error |-> "Parsing error", is_error_dict |-> TRUE,
          payload |-> c]

AlertClassifierAgentRun(c) ==
    /\ agent_run_out' = AlertClassifierAgentRunResult(c)
    /\ UNCHANGED <<predict_out, chainVars, dbVars, clfVars, scoreVars, loadVars, ctxVars>>

NextPredict ==
    \/ \E c \in Completions : Predict(c)
    \/ \E c \in Completions : AlertClassifierAgentRun(c)

(***************************************************************************)
(* AlertConfiguration rows and the feedback recorder                        *)
(***************************************************************************)
\* provider ids used by callers; m3 has no AlertConfiguration row
MonitorIds == {"m1", "m2", "m3"}
ExistingIds == {"m1", "m2"}

\* AlertConfiguration: is_noisy defaults to False, noisy_reason to None
NewConfiguration(p) ==
    [exists |-> TRUE, name |-> p, is_noisy |-> FALSE, noisy_reason |-> "None"]

NoConfiguration ==
    [exists |-> FALSE, name |-> "None", is_noisy |-> FALSE, noisy_reason |-> "None"]

\* DB sessions that may run mark_alert_configuration_as_noisy concurrently
\* (one per worker process handling a Slack action)
Sessions == {"s1", "s2"}

IdleSession ==
    [pc |-> "idle", provider_id |-> "None", classification |-> "None",
     is_positive |-> FALSE, snapshot |-> NoConfiguration]

\* labels SlackBot.handle_message_events puts into the thumbs buttons
SlackBotLabels == {AlertClassification(s) : s \in ScoreSamples}

\* SlackBot.handle_feedback: is_noisy from the label and the human answer
SlackBotIsNoisy(classification, is_positive) ==
    \/ (classification = "Actionable" /\ ~is_positive)
    \/ (classification = "Potentially Noisy" /\ is_positive)

\* SlackBot.handle_feedback: f"User feedback: {'not noisy' if is_positive else 'noisy'}"
SlackBotReason(is_positive) ==
    IF is_positive THEN "User feedback: not noisy" ELSE "User feedback: noisy"

\* a recorder that flips the stored label on every "noisy" feedback instead
\* of setting it
MarkAssignToggle(row, is_noisy, reason) ==
    [row EXCEPT !.is_noisy = IF is_noisy THEN ~row.is_noisy ELSE row.is_noisy,
                !.noisy_reason = IF is_noisy THEN reason ELSE "None"]

\* mark_alert_configuration_as_noisy: the attribute assignments on the loaded row
MarkAssign(row, is_noisy, reason) ==
    [row EXCEPT !.is_noisy = is_noisy,
                !.noisy_reason = IF is_noisy THEN reason ELSE "None"]

\* session.commit(): the unit of work flushes UPDATE alertconfiguration SET ...
\* WHERE id = ... naming the columns whose assigned value differs from the
\* value loaded by the SELECT, on the row as committed at that moment
Flush(row, snapshot, assigned) ==
    [row EXCEPT
       !.is_noisy = IF assigned.is_noisy # snapshot.is_noisy
                    THEN assigned.is_noisy ELSE @,
       !.noisy_reason = IF assigned.noisy_reason # snapshot.noisy_reason
                        THEN assigned.noisy_reason ELSE @]

\* the row a session has in memory before it commits
Assigned(se) ==
    MarkAssign(se.snapshot,
               SlackBotIsNoisy(se.classification, se.is_positive),
               SlackBotReason(se.is_positive))

\* what mark_alert_configuration_as_noisy(provider_id = p) returned: the
\* refreshed AlertConfiguration, named by its provider_id, or None
NoMarkOut == [provider_id |-> "None", returned |-> "none"]

\* a recorder that hands back a configuration even when it found none
MarkReturnedAlwaysRow(p, row) == [provider_id |-> p, returned |-> p]

MarkReturned(p, row) == [provider_id |-> p, returned |-> row]

\* SlackBot.handle_feedback up to the SELECT of mark_alert_configuration_as_noisy;
\* with no row the function prints a warning and returns None
MarkLoad(s, p, classification, is_positive) ==
    /\ sess[s].pc = "idle"
    /\ IF configs[p].exists
       THEN /\ sess' = [sess EXCEPT ![s] =
                        [pc |-> "loaded", provider_id |-> p,
                         classification |-> classification,
                         is_positive |-> is_positive, snapshot |-> configs[p]]]
            /\ UNCHANGED mark_out
       ELSE /\ sess' = sess
            /\ mark_out' = MarkReturned(p, "None")
    /\ UNCHANGED <<configs, last_feedback, chainVars, predictVars, clfVars,
                   scoreVars, loadVars, ctxVars>>

\* session.add, session.commit, session.refresh, return
MarkCommit(s) ==
    /\ sess[s].pc = "loaded"
    /\ configs' = [configs EXCEPT ![sess[s].provider_id] =
                      Flush(@, sess[s].snapshot, Assigned(sess[s]))]
    /\ sess' = [sess EXCEPT ![s] = IdleSession]
    /\ mark_out' = MarkReturned(sess[s].provider_id, sess[s].provider_id)
    /\ UNCHANGED <<last_feedback, chainVars, predictVars, clfVars, scoreVars,
                   loadVars, ctxVars>>

\* mark_alert_configuration_as_noisy run alone, start to end, on committed rows
RecordFeedback(cfgs, p, classification, is_positive) ==
    IF cfgs[p].exists
    THEN [cfgs EXCEPT ![p] =
            Flush(@, @, MarkAssign(@, SlackBotIsNoisy(classification, is_positive),
                                   SlackBotReason(is_positive)))]
    ELSE cfgs

\* ---- slack/handlers/action_handlers.py
\* AlertClassifier.classify: "is_actionable": str(is_actionable), or "unknown"
PyStr(b) == [type |-> "str", val |-> IF b THEN "True" ELSE "False"]

ClassifyLabels == {PyStr(TRUE), PyStr(FALSE), [type |-> "str", val |-> "unknown"]}

\* format_prediction_blocks json.dumps the value, handle_feedback json.loads it:
\* a string stays a string, a boolean stays a boolean
JsonRoundTrip(v) == v

\* "classification is False" / "classification is True"
IsFalse(v) == v.type = "bool" /\ v.val = "False"
IsTrue(v) == v.type = "bool" /\ v.val = "True"

\* handlers.action_handlers.handle_feedback
HandlerIsNoisy(classification, is_positive) ==
    \/ (IsFalse(classification) /\ is_positive)
    \/ (IsTrue(classification) /\ ~is_positive)
    \/ FALSE

\* update_alert_feedback(alert_id, alert_configuration_id, is_noisy): both
\* fields written together, the reason generated from the label
UpdateAlertFeedback(cfgs, p, is_noisy) ==
    IF cfgs[p].exists
    THEN [cfgs EXCEPT ![p] =
            [@ EXCEPT !.is_noisy = is_noisy,
                      !.noisy_reason = IF is_noisy
                                       THEN "User feedback: marked noisy"
                                       ELSE "User feedback: marked not noisy"]]
    ELSE cfgs

NoFeedback ==
    [handler |-> "None", provider_id |-> "None",
     classification |-> [type |-> "None", val |-> "None"], is_positive |-> FALSE]

HandleFeedback(p, label, is_positive) ==
    /\ configs' = UpdateAlertFeedback(configs, p,
                      HandlerIsNoisy(JsonRoundTrip(label), is_positive))
    /\ last_feedback' = [handler |-> "action_handlers", provider_id |-> p,
                         classification |-> label, is_positive |-> is_positive]
    /\ UNCHANGED <<sess, mark_out, chainVars, predictVars, clfVars, scoreVars,
                   loadVars, ctxVars>>

NextSlackBot ==
    \/ \E s \in Sessions, p \in MonitorIds, l \in SlackBotLabels, a \in BOOLEAN :
           MarkLoad(s, p, l, a)
    \/ \E s \in Sessions : MarkCommit(s)

NextHandlers ==
    \E p \in MonitorIds, l \in ClassifyLabels, a \in BOOLEAN : HandleFeedback(p, l, a)

(***************************************************************************)
(* Configuration Aggregator: get_alert_configuration_stats                  *)
(***************************************************************************)
\* Alert rows of the store at the start (duration_seconds -1 is NULL); m2
\* has no alert
AlertRows ==
    {[id |-> 1, configuration_id |-> "m1", status |-> "open",
      duration_seconds |-> -1, severity |-> "high"],
     [id |-> 2, configuration_id |-> "m1", status |-> "resolved",
      duration_seconds |-> 60, severity |-> "low"],
     [id |-> 3, configuration_id |-> "m1", status |-> "resolved",
      duration_seconds |-> 120, severity |-> "high"]}

\* Alert rows the providers may have stored besides: one more low alert of
\* m1, and two open alerts of m2 whose duration is not known
AlertPool ==
    AlertRows \cup
    {[id |-> 4, configuration_id |-> "m1", status |-> "open",
      duration_seconds |-> -1, severity |-> "low"],
     [id |-> 5, configuration_id |-> "m2", status |-> "open",
      duration_seconds |-> -1, severity |-> "critical"],
     [id |-> 6, configuration_id |-> "m2", status |-> "open",
      duration_seconds |-> -1, severity |-> "low"]}

\* the Alert tables the program may run on
AlertTables == SUBSET AlertPool

AlertsOf(p) == {a \in alerts : a.configuration_id = p}

RECURSIVE SumDurations(_)
SumDurations(S) ==
    IF S = {} THEN 0
    ELSE LET a == CHOOSE x \in S : TRUE
         IN a.duration_seconds + SumDurations(S \ {a})

\* func.avg(Alert.duration_seconds) over the rows with a duration; 0 stands
\* for the NULL of an empty set, as "avg_duration or 0" makes of it
AvgDuration(p) ==
    LET known == {a \in AlertsOf(p) : a.duration_seconds # -1}
    IN IF known = {} THEN 0 ELSE SumDurations(known) \div Cardinality(known)

SeverityCount(p, sev) == Cardinality({a \in AlertsOf(p) : a.severity = sev})

\* group_by(severity).order_by(count desc).first(): a severity of maximal
\* count; the order among equal counts is the store's
TopSeverities(p) ==
    {a.severity : a \in {x \in AlertsOf(p) :
        \A y \in AlertsOf(p) : SeverityCount(p, x.severity) >= SeverityCount(p, y.severity)}}

\* keys of the dict get_alert_configuration_stats returns for a configuration
StatsKeys ==
    {"configuration_id", "is_noisy", "noisy_reason", "provider_id", "name",
     "unique_open_alerts", "average_duration_seconds", "severity"}

StatsRecord(kind, keys, row, p, sev) ==
    [kind |-> kind, keys |-> keys, provider_id |-> p,
     is_noisy |-> row.is_noisy,
     noisy_reason |-> IF row.noisy_reason = "None" THEN "No reason provided"
                      ELSE row.noisy_reason,
     unique_open_alerts |->
         Cardinality({a \in AlertsOf(p) : a.status = "open"}),
     average_duration_seconds |-> AvgDuration(p),
     severity |-> sev]

\* the results get_alert_configuration_stats(monitor_id) can give on the
\* committed rows cfgs: the error dict, an AttributeError from
\* severity.severity when the configuration has no alert, or the stats
GetAlertConfigurationStats(cfgs, p) ==
    IF ~cfgs[p].exists
    THEN {StatsRecord("error", {"error"}, NoConfiguration, p, "None")}
    ELSE IF AlertsOf(p) = {}
    THEN {StatsRecord("AttributeError", {}, cfgs[p], p, "None")}
    ELSE {StatsRecord("stats", StatsKeys, cfgs[p], p, sev) : sev \in TopSeverities(p)}

\* ---- get_or_create_alert_configuration
NoGetOrCreateOut == [kind |-> "none", id |-> "None", error |-> "None"]

\* a DB session of get_or_create_alert_configuration: its position, the
\* provider_id of its config_schema, and what its last call gave
IdleGetOrCreate == [pc |-> "idle", provider_id |-> "None", out |-> NoGetOrCreateOut]

\* the SELECT by provider_id; "if existing_config: return existing_config.id".
\* A row's id is named by its provider_id: the table has one row per
\* provider_id, the column being declared unique
GetOrCreateSelect(s, p) ==
    /\ goc[s].pc = "idle"
    /\ goc' = [goc EXCEPT ![s] =
                 IF configs[p].exists
                 THEN [pc |-> "idle", provider_id |-> p,
                       out |-> [kind |-> "returned", id |-> p, error |-> "None"]]
                 ELSE [pc |-> "adding", provider_id |-> p, out |-> NoGetOrCreateOut]]
    /\ UNCHANGED <<alerts, stats_out, store, hist_out, predict_run, chainVars,
                   predictVars, dbVars, clfVars, scoreVars, loadVars>>

\* session.add(new_config); session.commit(): the INSERT, which the unique
\* index on provider_id rejects when a row with it was committed since the
\* SELECT; then session.refresh and "return new_config.id"
GetOrCreateCommit(s) ==
    /\ goc[s].pc = "adding"
    /\ LET p == goc[s].provider_id
       IN IF configs[p].exists
          THEN /\ goc' = [goc EXCEPT ![s] =
                            [pc |-> "idle", provider_id |-> p,
                             out |-> [kind |-> "raised", id |-> "None",
                                      error |-> "IntegrityError"]]]
               /\ UNCHANGED configs
          ELSE /\ configs' = [configs EXCEPT ![p] = NewConfiguration(p)]
               /\ goc' = [goc EXCEPT ![s] =
                            [pc |-> "idle", provider_id |-> p,
                             out |-> [kind |-> "returned", id |-> p,
                                      error |-> "None"]]]
    /\ UNCHANGED <<sess, last_feedback, mark_out, alerts, stats_out, store,
                   hist_out, predict_run, chainVars, predictVars, clfVars,
                   scoreVars, loadVars>>

NextGetOrCreate ==
    \/ \E s \in Sessions, p \in MonitorIds : GetOrCreateSelect(s, p)
    \/ \E s \in Sessions : GetOrCreateCommit(s)

NoStatsOut ==
    [kind |-> "none", keys |-> {}, provider_id |-> "None", is_noisy |-> FALSE,
     noisy_reason |-> "None", unique_open_alerts |-> 0,
     average_duration_seconds |-> 0, severity |-> "None"]

\* one call of get_alert_configuration_stats(p): a fresh Session on the
\* committed rows
GetAlertConfigurationStatsCall(p) ==
    /\ stats_out' \in GetAlertConfigurationStats(configs, p)
    /\ UNCHANGED <<alerts, goc, store, hist_out, predict_run, chainVars,
                   predictVars, dbVars, clfVars, scoreVars, loadVars>>

NextStats == \E p \in MonitorIds : GetAlertConfigurationStatsCall(p)

(***************************************************************************)
(* SlackBot.handle_message_events and the alert task                        *)
(***************************************************************************)
NoMessageOut ==
    [kind |-> "none", site |-> "None", error |-> "None", label |-> "None",
     score10 |-> 0, stats_kind |-> "None", monitor_id |-> "None"]

\* handle_message_events up to the label: the stats of the monitor, predict
\* on the event and the stats, prediction["score"] against the threshold
HandleMessageEventsResult(p, stats, c) ==
    LET out == [NoMessageOut EXCEPT !.site = "handle_message_events",
                                    !.stats_kind = stats.kind, !.monitor_id = p]
    IN IF stats.kind = "AttributeError"
       THEN [out EXCEPT !.kind = "raised", !.error = "AttributeError"]
       ELSE IF PredictResult(c).kind = "raised"
       THEN [out EXCEPT !.kind = "raised", !.error = PredictResult(c).error]
       ELSE IF PredictResult(c).is_error_dict \/ ~c.has_score
       THEN [out EXCEPT !.kind = "raised", !.error = "KeyError"]
       ELSE [out EXCEPT !.kind = "label", !.score10 = c.score10,
                        !.label = AlertClassification(c.score10)]

HandleMessageEvents(p, c) ==
    /\ \E stats \in GetAlertConfigurationStats(configs, p) :
          /\ message_out' = HandleMessageEventsResult(p, stats, c)
          /\ predict_out' = IF stats.kind = "AttributeError" THEN predict_out
                            ELSE PredictResult(c)
    /\ UNCHANGED <<settings, avg_out, ctxVars, agent_run_out, chainVars, dbVars, clfVars,
                   loadVars>>

\* _check_actionable: predict(alert), then
\* "prediction and float(prediction) > threshold"; float() of the dict that
\* predict returns is a TypeError
CheckActionableResult(c) ==
    [NoMessageOut EXCEPT !.site = "_check_actionable", !.kind = "raised",
                         !.error = "TypeError"]

CheckActionable(c) ==
    /\ message_out' = CheckActionableResult(c)
    /\ predict_out' = PredictResult(c)
    /\ UNCHANGED <<settings, avg_out, ctxVars, agent_run_out, chainVars, dbVars, clfVars,
                   loadVars>>

NextMessages ==
    \/ \E p \in MonitorIds, c \in Completions : HandleMessageEvents(p, c)
    \/ \E c \in Completions : CheckActionable(c)

(***************************************************************************)
(* Feature engineer: get_avg_slack_responses                                *)
(***************************************************************************)
\* search_similar_alerts(vector_store, alert_string, k=5)
SimilarK == 5

\* len(metadata.get("thread_messages", [])) of a result; -1 stands for a
\* result whose metadata has no thread_messages
ThreadCounts == {-1, 0, 2}

\* what the Historical Store may return: at most k results, best first
SimilarAlerts == UNION {[1..n -> ThreadCounts] : n \in 0..SimilarK}

RECURSIVE TotalResponses(_)
TotalResponses(similar) ==
    IF similar = << >> THEN 0
    ELSE (IF Head(similar) = -1 THEN 0 ELSE Head(similar))
         + TotalResponses(Tail(similar))

NoAvgOut == [kind |-> "none", similar |-> << >>, num |-> 0, den |-> 1]

\* get_avg_slack_responses without its "if not similar_alerts" guard
GetAvgSlackResponsesUnguarded(similar) ==
    IF Len(similar) = 0
    THEN [kind |-> "raised", similar |-> similar, num |-> 0, den |-> 0]
    ELSE [kind |-> "returned", similar |-> similar,
          num |-> TotalResponses(similar), den |-> Len(similar)]

\* get_avg_slack_responses: the float returned is num / den
GetAvgSlackResponses(similar) ==
    IF Len(similar) = 0
    THEN [kind |-> "returned", similar |-> similar, num |-> 0, den |-> 1]
    ELSE [kind |-> "returned", similar |-> similar,
          num |-> TotalResponses(similar), den |-> Len(similar)]

GetAvgSlackResponsesCall(similar) ==
    /\ avg_out' = GetAvgSlackResponses(similar)
    /\ UNCHANGED <<settings, message_out, ctxVars, chainVars, predictVars, dbVars,
                   clfVars, loadVars>>

NextFeatures == \E similar \in SimilarAlerts : GetAvgSlackResponsesCall(similar)

(***************************************************************************)
(* Trained classifier: AlertClassifier                                      *)
(***************************************************************************)
\* modification times of the model file told apart
MaxMtime == 2

Mtimes == 1..MaxMtime

NoModelFile == [exists |-> FALSE, mtime |-> 0, loadable |-> FALSE]

\* AlertClassifier.__init__ before its _load_model call; model 0 is None,
\* a loaded model is named by the mtime of the file it was read from, an
\* explainer by the model it was built from
NewClassifier(threshold10) ==
    [model |-> 0, threshold10 |-> threshold10, last_loaded_time |-> 0,
     explainer |-> 0]

\* a _load_model that reads the file again when its mtime has not moved
LoadReadsUnchanged(c, f) == f.exists /\ f.mtime >= c.last_loaded_time

\* _load_model: joblib.load is called
LoadReads(c, f) == f.exists /\ f.mtime > c.last_loaded_time

\* AlertClassifier._load_model
LoadModel(c, f) ==
    IF f.exists
    THEN IF LoadReads(c, f)
         THEN IF f.loadable
              THEN [c EXCEPT !.model = f.mtime, !.last_loaded_time = f.mtime]
              ELSE [c EXCEPT !.model = 0]
         ELSE c
    ELSE [c EXCEPT !.model = 0]

NoLoadLog == [read |-> FALSE, loaded |-> {}, reloaded |-> {}]

\* the history after a _load_model call: whether the call read the file, the
\* modification times for which a load has succeeded so far, and those for
\* which it has succeeded more than once
LoadLogAfter(log, c, f) ==
    [read |-> LoadReads(c, f),
     loaded |-> IF LoadReads(c, f) /\ f.loadable
                THEN log.loaded \cup {f.mtime} ELSE log.loaded,
     reloaded |-> IF LoadReads(c, f) /\ f.loadable
                  THEN log.reloaded \cup ({f.mtime} \cap log.loaded)
                  ELSE log.reloaded]

\* keys engineer_features reads from alert_stats
FeatureStatsKeys ==
    {"unique_open_alerts", "average_duration_seconds", "noisy_alerts_count"}

\* engineer_features: a stats key it reads and the dict lacks is a KeyError
EngineerFeaturesOk(stats) == FeatureStatsKeys \subseteq stats.keys

\* keys of the dict engineer_features returns
EngineeredFeatureNames ==
    {"severity_score", "unique_open_alerts", "avg_resolution_time", "is_noisy",
     "noisy_alerts_count", "occurrence_frequency", "time_of_day",
     "day_of_week", "alert_title_length", "avg_slack_responses"}

\* probabilities predict_proba may give for a class, in tenths
ProbaSamples == {0, 5, 6, 10}

\* model.predict_proba([feature_values])[0]: one entry per class of the model
ProbaVectors ==
    {<< >>, <<3, 3, 4>>} \cup {<<q>> : q \in ProbaSamples}
    \cup {<<10 - q, q>> : q \in ProbaSamples}

\* what classify uses of a loaded model: the feature names it was fitted on,
\* what predict_proba does, whether TreeExplainer accepts the model and
\* whether shap_values succeeds on the features
Models ==
    {m \in [feature_names_in : {{"severity_score", "avg_slack_responses"},
                                {"severity_score", "has_error_keyword"}},
            proba_raises : BOOLEAN, proba : ProbaVectors,
            tree : BOOLEAN, shap_ok : BOOLEAN] :
        m.proba_raises => m.proba = << >>}

\* stands for "no model was asked" in the record of a classify call
NoModelMet ==
    [feature_names_in |-> {}, proba_raises |-> FALSE, proba |-> << >>,
     tree |-> FALSE, shap_ok |-> FALSE]

\* what a classify call gave its caller; model_met records the model whose
\* feature names the call looked up
NoClassifyOut ==
    [kind |-> "none", error |-> "None", is_actionable |-> "None",
     confidence10 |-> 0, alert_configuration_id |-> "None",
     explanation |-> "None", explainer |-> 0, model_met |-> NoModelMet]

ClassifyRaised(p, e) ==
    [NoClassifyOut EXCEPT !.kind = "raised", !.error = e,
                          !.alert_configuration_id = p]

\* the dict returned when no model is loaded, or when prediction failed
ClassifySentinel(p, e) ==
    [NoClassifyOut EXCEPT !.kind = "sentinel", !.error = e,
                          !.is_actionable = "unknown",
                          !.alert_configuration_id = p]

\* a feature lookup that fills in a value for a name the record lacks
FeatureValuesDefaulted(names, record) == TRUE

\* [features[feature] for feature in self.model.feature_names_in_]
FeatureValuesOk(names, record) == names \subseteq record

\* a try block that takes the first entry whatever the number of classes
PredictionStepFirstEntry(c, p, m) ==
    IF m.proba_raises \/ Len(m.proba) \notin {1, 2}
    THEN ClassifySentinel(p, "Prediction error")
    ELSE [NoClassifyOut EXCEPT
            !.kind = "verdict",
            !.is_actionable = PyStr(m.proba[1] > c.threshold10).val,
            !.confidence10 = m.proba[1],
            !.alert_configuration_id = p]

\* classify, the try block: predict_proba and the confidence taken from it;
\* prediction[0] is the first entry, prediction[1] the second
PredictionStep(c, p, m) ==
    IF m.proba_raises \/ Len(m.proba) \notin {1, 2}
    THEN ClassifySentinel(p, "Prediction error")
    ELSE LET confidence == IF Len(m.proba) = 1 THEN m.proba[1] ELSE m.proba[2]
         IN [NoClassifyOut EXCEPT
                !.kind = "verdict",
                !.is_actionable = PyStr(confidence > c.threshold10).val,
                !.confidence10 = confidence,
                !.alert_configuration_id = p]

\* _initialize_explainer: TreeExplainer(self.model) raises on a model that is
\* not a tree model
InitializeExplainerRaises(c, m) == c.model # 0 /\ c.explainer = 0 /\ ~m.tree

InitializeExplainer(c, m) ==
    IF c.model # 0 /\ c.explainer = 0 /\ m.tree
    THEN [c EXCEPT !.explainer = c.model]
    ELSE c

\* _explain_prediction on the verdict v: nothing catches what
\* _initialize_explainer or shap_values raises
ExplainPrediction(c, p, m, v) ==
    IF InitializeExplainerRaises(c, m) THEN ClassifyRaised(p, "TreeExplainerError")
    ELSE IF InitializeExplainer(c, m).explainer = 0
    THEN [v EXCEPT !.explanation = "empty"]
    ELSE IF ~m.shap_ok THEN ClassifyRaised(p, "ShapError")
    ELSE [v EXCEPT !.explanation = "shap",
                   !.explainer = InitializeExplainer(c, m).explainer]

\* classify from the feature lookup on, with the FeatureRecord it engineered
ScoreFeatures(c, p, record, m) ==
    LET out == IF ~FeatureValuesOk(m.feature_names_in, record)
               THEN ClassifyRaised(p, "KeyError: feature")
               ELSE IF PredictionStep(c, p, m).kind # "verdict"
               THEN PredictionStep(c, p, m)
               ELSE ExplainPrediction(c, p, m, PredictionStep(c, p, m))
    IN [out EXCEPT !.model_met = m]

\* the classifier after ScoreFeatures: the explainer it may have built
ClfAfterScore(c, record, m) ==
    IF /\ FeatureValuesOk(m.feature_names_in, record)
       /\ ~m.proba_raises /\ Len(m.proba) \in {1, 2}
    THEN InitializeExplainer(c, m)
    ELSE c

\* classify, after _load_model, with the stats it met and the loaded model m
ClassifyResult(c, p, stats, m) ==
    IF c.model = 0
    THEN ClassifySentinel(p, "Model not available")
    ELSE IF stats.kind = "AttributeError"
    THEN ClassifyRaised(p, "AttributeError")
    ELSE IF ~EngineerFeaturesOk(stats)
    THEN ClassifyRaised(p, "KeyError")
    ELSE ScoreFeatures(c, p, EngineeredFeatureNames, m)

ClfAfterClassify(c, stats, m) ==
    IF c.model # 0 /\ stats.kind # "AttributeError" /\ EngineerFeaturesOk(stats)
    THEN ClfAfterScore(c, EngineeredFeatureNames, m)
    ELSE c

\* a classify that stores its label on the configuration it looked up
ConfigsAfterClassifyWritesLabel(cfgs, p, result) ==
    IF cfgs[p].exists
    THEN [cfgs EXCEPT ![p] =
            [@ EXCEPT !.is_noisy = (result.is_actionable # "True"),
                      !.noisy_reason = result.error]]
    ELSE cfgs

\* the AlertConfiguration rows after a classify call: classify opens no
\* session but the read-only one of get_alert_configuration_stats
ConfigsAfterClassify(cfgs, p, result) == cfgs

\* the models classify can tell apart: it reads the model's properties only
\* once it has engineered the features
ModelsMet(c, stats) ==
    IF c.model # 0 /\ stats.kind # "AttributeError" /\ EngineerFeaturesOk(stats)
    THEN Models
    ELSE {CHOOSE m \in Models : TRUE}

\* classify from line 60 on, on the classifier c that _load_model left
ClassifyRest(c, p) ==
    \E stats \in GetAlertConfigurationStats(configs, p) :
      \E m \in ModelsMet(c, stats) :
        /\ clf' = ClfAfterClassify(c, stats, m)
        /\ classify_out' = ClassifyResult(c, p, stats, m)
        /\ configs' = ConfigsAfterClassify(configs, p, classify_out')

\* AlertClassifier.classify(alert), alert["alert_configuration_id"] = p, run
\* from its first line to its last with no other call in between
Classify(p) ==
    /\ load_log' = LoadLogAfter(load_log, clf, model_file)
    /\ ClassifyRest(LoadModel(clf, model_file), p)
    /\ UNCHANGED <<model_file, loader, sess, last_feedback, mark_out, chainVars,
                   predictVars, scoreVars, ctxVars>>

\* classify on the FeatureRecord that engineer_features declares, whatever
\* the aggregator gave: lines 72 to 106 on every loaded model
ScoreFeaturesCall(p, m) ==
    /\ clf.model # 0
    /\ clf' = ClfAfterScore(clf, EngineeredFeatureNames, m)
    /\ classify_out' = ScoreFeatures(clf, p, EngineeredFeatureNames, m)
    /\ UNCHANGED <<model_file, loadVars, dbVars, chainVars, predictVars, scoreVars, ctxVars>>

\* threads that call classify on the one AlertClassifier instance
Threads == {"t1", "t2"}

IdleLoader == [pc |-> "idle", current_mtime |-> 0, p |-> "None"]

\* a thread enters classify and runs _load_model up to the comparison of the
\* file's mtime with last_loaded_time; when there is nothing to load it runs
\* classify to its end
ClassifyEnter(th, p) ==
    /\ loader[th].pc = "idle"
    /\ IF LoadReads(clf, model_file)
       THEN /\ loader' = [loader EXCEPT ![th] =
                   [pc |-> "loading", current_mtime |-> model_file.mtime, p |-> p]]
            /\ UNCHANGED <<clf, classify_out, load_log, configs>>
       ELSE /\ load_log' = [load_log EXCEPT !.read = FALSE]
            /\ ClassifyRest(LoadModel(clf, model_file), p)
            /\ UNCHANGED loader
    /\ UNCHANGED <<model_file, sess, last_feedback, mark_out, chainVars, predictVars,
                   scoreVars, ctxVars>>

\* the thread's joblib.load of the file now on disk, the two assignments that
\* follow it (or the except branch), and the rest of classify
LoadFinish(th) ==
    /\ loader[th].pc = "loading"
    /\ loader' = [loader EXCEPT ![th] = IdleLoader]
    /\ IF model_file.exists /\ model_file.loadable
       THEN /\ load_log' =
                 [read |-> TRUE,
                  loaded |-> load_log.loaded \cup {loader[th].current_mtime},
                  reloaded |-> load_log.reloaded \cup
                      ({loader[th].current_mtime} \cap load_log.loaded)]
            /\ ClassifyRest([clf EXCEPT !.model = model_file.mtime,
                                        !.last_loaded_time = loader[th].current_mtime],
                            loader[th].p)
       ELSE /\ load_log' = [load_log EXCEPT !.read = TRUE]
            /\ ClassifyRest([clf EXCEPT !.model = 0], loader[th].p)
    /\ UNCHANGED <<model_file, sess, last_feedback, mark_out, chainVars, predictVars,
                   scoreVars, ctxVars>>

\* the training script writes the model file, or an operator replaces it
WriteModelFile(t, loadable) ==
    /\ model_file' = [exists |-> TRUE, mtime |-> t, loadable |-> loadable]
    /\ UNCHANGED <<clf, classify_out, loadVars, dbVars, chainVars, predictVars,
                   scoreVars, ctxVars>>

DeleteModelFile ==
    /\ model_file.exists
    /\ model_file' = NoModelFile
    /\ UNCHANGED <<clf, classify_out, loadVars, dbVars, chainVars, predictVars,
                   scoreVars, ctxVars>>

NextClassifier ==
    \/ \E p \in MonitorIds : Classify(p)
    \/ \E t \in Mtimes, l \in BOOLEAN : WriteModelFile(t, l)
    \/ DeleteModelFile

\* classify called from several threads while the model file changes
NextThreads ==
    \/ \E th \in Threads, p \in MonitorIds : ClassifyEnter(th, p)
    \/ \E th \in Threads : LoadFinish(th)
    \/ \E t \in Mtimes, l \in BOOLEAN : WriteModelFile(t, l)
    \/ DeleteModelFile

\* the scoring steps of classify on every loaded model, for the alerts of
\* one monitor and model files that load
NextScoring ==
    \/ \E t \in Mtimes : WriteModelFile(t, TRUE)
    \/ Classify("m1")
    \/ \E m \in Models : ScoreFeaturesCall("m1", m)

(***************************************************************************)
(* Historical Store and AlertPredictor.fetch_historical_data                *)
(***************************************************************************)
\* documents the collection may hold
MaxDocs == 6

\* k of the similar-alert search of fetch_historical_data
HistoricalK == 5

\* k of the knowledge-base search of fetch_historical_data
KnowledgeBaseK == 2

\* metadata["source"] of a document: a Slack alert thread or a Confluence chunk
Sources == {"slack", "confluence"}

\* the document added as the n-th: its page_content and metadata are its own
Document(n, source) == [page_content |-> n, source |-> source]

\* add_alert_with_thread / add_texts / add_document: one more document; the
\* store variable lists the documents nearest first, and the new document
\* is nearer than all or farther than all the others
AddDocument(source, nearest) ==
    /\ Len(store) < MaxDocs
    /\ LET doc == Document(Len(store) + 1, source)
       IN store' = IF nearest THEN <<doc>> \o store ELSE Append(store, doc)
    /\ UNCHANGED <<alerts, stats_out, goc, hist_out, predict_run, chainVars,
                   predictVars, dbVars, clfVars, scoreVars, loadVars>>

\* positions of docs that pass the metadata filter ("None": no filter)
RECURSIVE Matching(_, _, _)
Matching(docs, filter, i) ==
    IF i > Len(docs) THEN <<>>
    ELSE IF filter = "None" \/ docs[i].source = filter
    THEN <<i>> \o Matching(docs, filter, i + 1)
    ELSE Matching(docs, filter, i + 1)

\* a store that answers with every matching document, whatever k is
SearchSimilarAlertsUnbounded(docs, query, k, filter) ==
    LET hits == Matching(docs, filter, 1)
    IN [j \in 1..Len(hits) |-> <<docs[hits[j]], hits[j]>>]

\* VectorStore.search_similar_alerts(query, k, filter): the k nearest
\* matching documents as (Document, score) pairs, nearest first; the score
\* is the store's, here the rank of the document in the collection
SearchSimilarAlerts(docs, query, k, filter) ==
    LET hits == Matching(docs, filter, 1)
        n == IF Len(hits) < k THEN Len(hits) ELSE k
    IN [j \in 1..n |-> <<docs[hits[j]], hits[j]>>]

\* ConfluenceIntegrator.search_knowledge_base(query, k)
SearchKnowledgeBase(docs, query, k) ==
    SearchSimilarAlerts(docs, query, k, "confluence")

\* alert dicts handed to the predictor: with and without title, description
AlertData ==
    {[has_title |-> TRUE, has_description |-> TRUE],
     [has_title |-> TRUE, has_description |-> FALSE],
     [has_title |-> FALSE, has_description |-> FALSE]}

\* f"{alert_data.get('title', '')} {alert_data.get('description', '')}"
Query(alert_data) ==
    (IF alert_data.has_title THEN "Test Alert" ELSE "") \o " "
    \o (IF alert_data.has_description THEN "Test Description" ELSE "")

NoHistOut == [searches |-> <<>>, returned |-> FALSE, historical_data |-> <<>>]

\* fetch_historical_data: the two searches it makes, one dict per pair of
\* similar_alerts + confluence_content
FetchHistoricalData(docs, alert_data) ==
    LET query == Query(alert_data)
        similar_alerts == SearchSimilarAlerts(docs, query, HistoricalK, "None")
        confluence_content == SearchKnowledgeBase(docs, query, KnowledgeBaseK)
        pairs == similar_alerts \o confluence_content
    IN [searches |-> <<[query |-> query, k |-> HistoricalK, filter |-> "None"],
                       [query |-> query, k |-> KnowledgeBaseK,
                        filter |-> "confluence"]>>,
        returned |-> TRUE,
        historical_data |->
            [j \in 1..Len(pairs) |->
                [text |-> pairs[j][1].page_content,
                 metadata |-> pairs[j][1].source,
                 similarity |-> pairs[j][2]]]]

FetchHistoricalDataCall(alert_data) ==
    /\ hist_out' = FetchHistoricalData(store, alert_data)
    /\ UNCHANGED <<alerts, stats_out, goc, store, predict_run, chainVars,
                   predictVars, dbVars, clfVars, scoreVars, loadVars>>

NextHistory ==
    \/ \E source \in Sources, nearest \in BOOLEAN : AddDocument(source, nearest)
    \/ \E alert_data \in AlertData : FetchHistoricalDataCall(alert_data)

\* ---- AlertPredictor.predict up to the model invocation
\* k of VectorStore.similarity_search when the caller gives none
SimilaritySearchK == 5

\* alert_stats handed to predict: the default None, or a stats dict
AlertStatsSamples == {"None", "stats"}

\* json.dumps(v): the JSON text of v, told apart from v itself
JsonDumps(v) == [json |-> v]

NoPrompt ==
    [alert_text |-> "None", alert_stats |-> "None", historical_data |-> "None"]

\* a prompt that leaves the historical data out
CreatePromptWithoutHistory(alert_data, alert_stats, historical_data) ==
    [alert_text |-> JsonDumps(alert_data),
     alert_stats |-> JsonDumps(alert_stats),
     historical_data |-> JsonDumps(<<>>)]

\* _create_prompt: PROMPT.format with the three placeholders filled
CreatePrompt(alert_data, alert_stats, historical_data) ==
    [alert_text |-> JsonDumps(alert_data),
     alert_stats |-> JsonDumps(alert_stats),
     historical_data |-> JsonDumps(historical_data)]

IdlePredict ==
    [pc |-> "idle", steps |-> <<>>,
     alert_data |-> [has_title |-> FALSE, has_description |-> FALSE],
     alert_stats |-> "None", historical_data |-> <<>>, prompt |-> NoPrompt,
     messages |-> <<>>]

\* predict, line 144: historical_data = await self.fetch_historical_data(input_data)
PredictFetch(alert_data, alert_stats) ==
    /\ predict_run.pc = "idle"
    /\ hist_out' = FetchHistoricalData(store, alert_data)
    /\ predict_run' = [IdlePredict EXCEPT
                          !.pc = "fetched",
                          !.steps = <<"fetch_historical_data">>,
                          !.alert_data = alert_data,
                          !.alert_stats = alert_stats,
                          !.historical_data = hist_out'.historical_data]
    /\ UNCHANGED <<alerts, stats_out, goc, store, chainVars, predictVars, dbVars,
                   clfVars, scoreVars, loadVars>>

\* predict, line 145: prompt = self._create_prompt(...) on the locals
PredictPrompt ==
    /\ predict_run.pc = "fetched"
    /\ predict_run' = [predict_run EXCEPT
                          !.pc = "prompted",
                          !.steps = Append(@, "_create_prompt"),
                          !.prompt = CreatePrompt(predict_run.alert_data,
                                                  predict_run.alert_stats,
                                                  predict_run.historical_data)]
    /\ UNCHANGED <<alerts, stats_out, goc, store, hist_out, chainVars,
                   predictVars, dbVars, clfVars, scoreVars, loadVars>>

\* predict, lines 146-154: the context of the documents nearest to the
\* prompt, the two messages, and the call of llm_client.get_completion
PredictInvoke ==
    /\ predict_run.pc = "prompted"
    /\ LET relevant_docs == SearchSimilarAlerts(store, predict_run.prompt,
                                                SimilaritySearchK, "None")
           context == [j \in 1..Len(relevant_docs) |->
                          relevant_docs[j][1].page_content]
       IN predict_run' = [predict_run EXCEPT
                             !.pc = "invoked",
                             !.steps = Append(@, "get_completion"),
                             !.messages =
                                 <<[type |-> "system", content |-> context],
                                   [type |-> "human",
                                    content |-> predict_run.prompt]>>]
    /\ UNCHANGED <<alerts, stats_out, goc, store, hist_out, chainVars,
                   predictVars, dbVars, clfVars, scoreVars, loadVars>>

\* predict, lines 154-163: the completion c arrives and is parsed
PredictReturn(c) ==
    /\ predict_run.pc = "invoked"
    /\ predict_out' = PredictResult(c)
    /\ predict_run' = IdlePredict
    /\ UNCHANGED <<agent_run_out, alerts, stats_out, goc, store, hist_out,
                   chainVars, dbVars, clfVars, scoreVars, loadVars>>

\* one predict call at a time, while the indexers add documents
NextPrompt ==
    \/ \E source \in Sources : AddDocument(source, FALSE)
    \/ \E alert_data \in AlertData, alert_stats \in AlertStatsSamples :
           PredictFetch(alert_data, alert_stats)
    \/ PredictPrompt
    \/ PredictInvoke
    \/ \E c \in Completions : PredictReturn(c)

(***************************************************************************)
(* Specifications                                                           *)
(***************************************************************************)
\* the state after construction, settings.PREDICTION_CONFIDENCE_THRESHOLD = t,
\* on the Alert table tbl
InitOn(t, tbl) ==
    /\ pc = "Idle"
    /\ agent = "None"
    /\ input = PagerDutyInput
    /\ idx = 0
    /\ tool_output = NoOutput
    /\ first_error = NoError
    /\ last_error = NoError
    /\ invocations = 0
    /\ outcome = NoOutcome
    /\ predict_out = NoPredictOut
    /\ agent_run_out = NoPredictOut
    /\ configs = [p \in MonitorIds |->
                    IF p \in ExistingIds THEN NewConfiguration(p) ELSE NoConfiguration]
    /\ sess = [s \in Sessions |-> IdleSession]
    /\ last_feedback = NoFeedback
    /\ model_file = NoModelFile
    /\ settings = Settings(t)
    /\ clf = LoadModel(NewClassifier(t), NoModelFile)
    /\ classify_out = NoClassifyOut
    /\ load_log = NoLoadLog
    /\ loader = [th \in Threads |-> IdleLoader]
    /\ message_out = NoMessageOut
    /\ avg_out = NoAvgOut
    /\ mark_out = NoMarkOut
    /\ alerts = tbl
    /\ stats_out = NoStatsOut
    /\ goc = [s \in Sessions |-> IdleGetOrCreate]
    /\ store = <<>>
    /\ hist_out = NoHistOut
    /\ predict_run = IdlePredict

InitWith(t) == InitOn(t, AlertRows)

\* the program started with the default settings
Init == InitWith(PredictionConfidenceThreshold10)

\* the program started with any configured threshold
ConfiguredInit == \E t \in Thresholds : InitWith(t)

\* one session at a time: feedback events handled one after the other
NextSlackBotSolo ==
    \/ \E p \in MonitorIds, l \in SlackBotLabels, a \in BOOLEAN : MarkLoad("s1", p, l, a)
    \/ MarkCommit("s1")

Next ==
    \/ NextChain \/ NextPredict \/ NextSlackBot \/ NextHandlers
    \/ NextClassifier \/ NextScoring \/ NextThreads \/ NextMessages
    \/ NextFeatures \/ NextStats \/ NextHistory \/ NextPrompt
    \/ NextGetOrCreate

Spec == Init /\ [][Next]_vars

\* calls of BaseAgent.run_chain
ChainSpec == Init /\ [][NextChain]_vars

\* a started call keeps running: chain_with_retry.invoke is synchronous code
\* and every model invocation returns
ChainFairSpec == ChainSpec /\ WF_vars(ChainStep)

\* the structured LLM calls: the retry chain, predict, the classifier agent
LLMSpec == Init /\ [][NextChain \/ NextPredict]_vars

\* feedback handled by concurrent sessions of SlackBot.handle_feedback
SlackBotSpec == Init /\ [][NextSlackBot]_vars

\* feedback handled one event at a time, by either handler
FeedbackSpec == Init /\ [][NextSlackBotSolo \/ NextHandlers]_vars

\* classification between feedback events
ClassifySpec == Init /\ [][NextClassifier \/ NextSlackBotSolo]_vars

\* every scoring step of the classifier, under any configured threshold
ScoringSpec == ConfiguredInit /\ [][NextScoring]_vars

\* the labels derived from a score by each strategy, for one monitor and
\* one model file, under any configured threshold
NextLabels ==
    \/ \E c \in Completions : HandleMessageEvents("m1", c)
    \/ \E c \in Completions : CheckActionable(c)
    \/ WriteModelFile(1, TRUE)
    \/ Classify("m1")
    \/ \E m \in Models : ScoreFeaturesCall("m1", m)

LabelSpec == ConfiguredInit /\ [][NextLabels]_vars

\* alert messages handled by the Slack bot and the alert task, between
\* feedback events
MessageSpec == Init /\ [][NextMessages \/ NextSlackBotSolo]_vars

\* classify called from concurrent threads
ThreadsSpec == Init /\ [][NextThreads]_vars

\* calls of get_avg_slack_responses on every answer of the Historical Store
FeatureSpec == Init /\ [][NextFeatures]_vars

\* the Configuration Aggregator read between feedback events, on any Alert
\* table
StatsInit == \E tbl \in AlertTables : InitOn(PredictionConfidenceThreshold10, tbl)

StatsSpec == StatsInit /\ [][NextStats \/ NextSlackBotSolo]_vars

\* the Historical Store filled by the indexers and read by the predictor
HistorySpec == Init /\ [][NextHistory]_vars

\* predict calls on a growing Historical Store
PromptSpec == Init /\ [][NextPrompt]_vars

\* configurations pulled from the providers by concurrent sessions, between
\* feedback events
GetOrCreateSpec == Init /\ [][NextGetOrCreate \/ NextSlackBotSolo]_vars

(***************************************************************************)
(* Claims                                                                   *)
(***************************************************************************)

\* C1: every call of the structured-output wrapper ends in Succeeded or in
\* Exhausted, and it invokes the model at most 1 + NumFallbacks times
C1_TerminatesWithinBudget ==
    /\ [](invocations <= 1 + NumFallbacks)
    /\ [](pc \in {"Succeeded", "Exhausted"} => ~ENABLED ChainStep)
    /\ (pc = "Invoking") ~> (pc \in {"Succeeded", "Exhausted"})

\* a call that used the whole budget and then ended
C1_Witness == pc = "Exhausted" /\ invocations = 1 + NumFallbacks

\* C2: a schema-validated model call hands a Verdict payload to its caller
\* only from Succeeded: run_chain, predict and AlertClassifierAgent.run return
\* a payload only when the last model response passed validation
C2_VerdictOnlyFromSucceeded ==
    /\ outcome.kind = "returned" =>
          (pc = "Succeeded" /\ CheckOutput(tool_output) = NoError)
    /\ (predict_out.kind = "returned" /\ ~predict_out.is_error_dict) =>
          AlertClassifierOutputValid(predict_out.payload)
    /\ (agent_run_out.kind = "returned" /\ ~agent_run_out.is_error_dict) =>
          AlertClassifierOutputValid(agent_run_out.payload)

\* C3: when every attempt fails validation the wrapper ends in Exhausted and
\* the error it surfaces is that of the last failed attempt
C3_ExhaustedCarriesLastError ==
    pc = "Exhausted" => outcome.error = CheckOutput(tool_output)

\* C4: whatever the shape of the input, a validation failure that leaves
\* budget appends one retry turn stating that error and goes back to Invoking
C4_RetryTurnAppended ==
    [][(pc = "RetryPending" /\ last_error.type = "ValueError") =>
          (/\ pc' = "Invoking"
           /\ input'.messages = Append(input.messages, RetryTurn(last_error)))]_vars

\* C5: every payload the LLM strategy returns has 0 <= score <= 1
C5_ScoreInUnitInterval ==
    (predict_out.kind = "returned" /\ predict_out.payload.has_score) =>
        (0 <= predict_out.payload.score10 /\ predict_out.payload.score10 <= 10)

\* what a label in a feedback payload says about the alert
LabelSaysActionable(l) == l = "Actionable" \/ l = "True"
LabelSaysNoisy(l) == l = "Potentially Noisy" \/ l = "False"

\* the 4-case table of record_feedback
TableIsNoisy(l, approved) ==
    (LabelSaysActionable(l) /\ ~approved) \/ (LabelSaysNoisy(l) /\ approved)

\* C6: for every label classification emits and both human answers, the
\* feedback sets is_noisy by the table: (actionable, approve) -> not noisy,
\* (actionable, reject) -> noisy, (noisy, approve) -> noisy,
\* (noisy, reject) -> not noisy
C6_TruthTable ==
    [][\A p \in ExistingIds, a \in BOOLEAN :
          /\ \A l \in SlackBotLabels :
                (/\ sess["s1"].pc = "loaded"
                 /\ sess["s1"].provider_id = p
                 /\ sess["s1"].classification = l
                 /\ sess["s1"].is_positive = a
                 /\ MarkCommit("s1"))
                => configs'[p].is_noisy = TableIsNoisy(l, a)
          /\ \A l \in {x \in ClassifyLabels : x.val # "unknown"} :
                HandleFeedback(p, l, a)
                => configs'[p].is_noisy = TableIsNoisy(l.val, a)]_vars

\* C7: applying the same feedback event a second time leaves is_noisy and
\* noisy_reason as the first application left them
C7_Idempotent ==
    [][\A s \in Sessions :
          (MarkCommit(s) /\ sess[s].snapshot = configs[sess[s].provider_id])
          => RecordFeedback(configs', sess[s].provider_id,
                            sess[s].classification, sess[s].is_positive) = configs']_vars

\* a feedback event has been applied to m1
C7_Witness ==
    /\ configs["m1"].is_noisy
    /\ configs["m1"].noisy_reason = "User feedback: not noisy"
    /\ \A s \in Sessions : sess[s].pc = "idle"

\* the pair one feedback event writes
WrittenPair(l, a) ==
    <<SlackBotIsNoisy(l, a), IF SlackBotIsNoisy(l, a) THEN SlackBotReason(a) ELSE "None">>

\* C8: in every committed state the pair (is_noisy, noisy_reason) of a row is
\* the initial pair or the pair written by one single feedback event
C8_RowWrittenWhole ==
    \A p \in ExistingIds :
        \/ <<configs[p].is_noisy, configs[p].noisy_reason>> = <<FALSE, "None">>
        \/ \E l \in SlackBotLabels, a \in BOOLEAN :
              <<configs[p].is_noisy, configs[p].noisy_reason>> = WrittenPair(l, a)

\* the reason the recorder is to generate for a label
GeneratedReason(is_noisy) ==
    IF is_noisy THEN "User feedback: marked noisy"
    ELSE "User feedback: marked not noisy"

\* C9: after every record_feedback the stored noisy_reason is the generated
\* string naming the same label as the stored is_noisy
C9_ReasonNamesLabel ==
    [][\A s \in Sessions :
          MarkCommit(s) =>
             configs'[sess[s].provider_id].noisy_reason =
                 GeneratedReason(configs'[sess[s].provider_id].is_noisy)]_vars

\* C10: classify never mutates an AlertConfiguration, whatever it returns
C10_ClassifyFrame ==
    [][(\E p \in MonitorIds : Classify(p)) => configs' = configs]_vars

\* classify has raised, and returned the sentinel, on a relabelled configuration
C10_Witness ==
    /\ classify_out.kind \in {"sentinel", "raised"}
    /\ classify_out.alert_configuration_id = "m1"
    /\ configs["m1"].is_noisy

\* C11: a classify call made while the model file is missing or unloadable
\* returns the "unavailable" sentinel (confidence 0, label unknown) and does
\* not raise, whatever the alert's configuration
C11_SentinelWithoutModel ==
    [][\A p \in MonitorIds :
          (Classify(p) /\ (~model_file.exists \/ ~model_file.loadable))
          => /\ classify_out'.kind = "sentinel"
             /\ classify_out'.is_actionable = "unknown"
             /\ classify_out'.confidence10 = 0]_vars

C13_ConfigurationNotFoundPropagated ==
    (message_out.site = "handle_message_events" /\ message_out.stats_kind = "error")
    => (message_out.kind = "raised" /\ message_out.error = "ConfigurationNotFound")

ThreadMessageTotal(similar) ==
    2 * Cardinality({i \in DOMAIN similar : similar[i] = 2})

\* C16: get_avg_slack_responses returns 0 when the Historical Store returns
\* no result, and otherwise the mean number of thread messages per result
C16_AvgSlackResponses ==
    avg_out.kind # "none"
    => /\ avg_out.kind = "returned"
       /\ avg_out.den > 0
       /\ avg_out.similar = << >> => avg_out.num = 0
       /\ avg_out.similar # << >>
          => avg_out.num * Len(avg_out.similar)
               = ThreadMessageTotal(avg_out.similar) * avg_out.den

\* the Historical Store returned nothing and the feature is 0
C16_Witness ==
    /\ avg_out.kind = "returned"
    /\ avg_out.similar = << >>
    /\ avg_out.num = 0

\* C17: every classify call compares the file's mtime with last_loaded_time
\* and reads the file exactly when the mtime is later; a later mtime of a
\* loadable file is the loaded model when the call ends
C17_ReloadOnlyWhenChanged ==
    [][\A p \in MonitorIds :
          Classify(p)
          => /\ load_log'.read
                <=> (model_file.exists /\ model_file.mtime > clf.last_loaded_time)
             /\ (model_file.exists /\ model_file.loadable
                   /\ model_file.mtime > clf.last_loaded_time)
                => (clf'.model = model_file.mtime
                    /\ clf'.last_loaded_time = model_file.mtime)]_vars

\* a classify call found the loaded file unchanged and did not read it
C17_Witness ==
    /\ clf.model # 0
    /\ model_file.exists
    /\ model_file.mtime = clf.last_loaded_time
    /\ ~load_log.read
    /\ classify_out.kind = "raised"

\* C18: with classify calls running concurrently, no modification time is
\* loaded twice and last_loaded_time never decreases
C18_LoadOncePerMtime ==
    [][/\ clf'.last_loaded_time >= clf.last_loaded_time
       /\ load_log'.reloaded = {}]_vars

\* C19: on a loaded model the confidence of a Verdict is the only entry of a
\* one-class probability vector and the second entry of a two-class one; any
\* other outcome of predict_proba gives the unknown Verdict, nothing raised
C19_ConfidenceFromProba ==
    LET m == classify_out.model_met
    IN (m \in Models /\ m.feature_names_in \subseteq EngineeredFeatureNames)
       => /\ (~m.proba_raises /\ Len(m.proba) = 1 /\ classify_out.kind = "verdict")
             => classify_out.confidence10 = m.proba[1]
          /\ (~m.proba_raises /\ Len(m.proba) = 2 /\ classify_out.kind = "verdict")
             => classify_out.confidence10 = m.proba[2]
          /\ (m.proba_raises \/ Len(m.proba) \notin {1, 2})
             => /\ classify_out.kind = "sentinel"
                /\ classify_out.is_actionable = "unknown"
                /\ classify_out.confidence10 = 0

\* a two-class prediction gave a Verdict, its confidence the second entry
C19_Witness ==
    /\ clf.model # 0
    /\ classify_out.kind = "verdict"
    /\ classify_out.model_met.proba = <<4, 6>>
    /\ classify_out.confidence10 = 6

\* C20: when the explainer cannot be built or the attribution raises after a
\* successful prediction, classify returns the Verdict with an empty
\* explanation: a failed explanation never aborts the call
C20_ExplanationDegrades ==
    LET m == classify_out.model_met
    IN (m \in Models /\ m.feature_names_in \subseteq EngineeredFeatureNames
          /\ ~m.proba_raises /\ Len(m.proba) \in {1, 2})
       => /\ classify_out.kind = "verdict"
          /\ ~m.shap_ok => classify_out.explanation = "empty"

\* C21: for an existing configuration get_alert_configuration_stats always
\* returns the stats; with no alert of known duration, no alert at all
\* included, the mean duration is 0 and unique_open_alerts is the number of
\* distinct open alerts
C21_StatsTotal ==
    LET p == stats_out.provider_id
    IN (stats_out.kind # "none" /\ configs[p].exists)
       => /\ stats_out.kind = "stats"
          /\ (\A a \in AlertsOf(p) : a.duration_seconds = -1)
             => stats_out.average_duration_seconds = 0
          /\ stats_out.unique_open_alerts =
                Cardinality({a.id : a \in {x \in AlertsOf(p) : x.status = "open"}})

\* low < medium < high < critical
SeverityRank(sev) ==
    CASE sev = "low" -> 1 [] sev = "medium" -> 2 [] sev = "high" -> 3
      [] sev = "critical" -> 4 [] OTHER -> 0

\* C22: the severity of the stats is the most frequent severity of the
\* configuration's alerts, and among equally frequent ones the highest
C22_DominantSeverity ==
    LET p == stats_out.provider_id
    IN stats_out.kind = "stats"
       => \A a \in AlertsOf(p) :
             \/ SeverityCount(p, stats_out.severity) > SeverityCount(p, a.severity)
             \/ /\ SeverityCount(p, stats_out.severity) = SeverityCount(p, a.severity)
                /\ SeverityRank(stats_out.severity) >= SeverityRank(a.severity)

\* the noisy_reason a stats call reports for a stored reason
ReportedReason(reason) == IF reason = "None" THEN "No reason provided" ELSE reason

\* C23: a stats call on an existing configuration returns the is_noisy and
\* the reason of the last committed write, and a second call on rows that
\* are as the previous call of the same configuration saw them returns the
\* same result
C23_StatsFresh ==
    [][\A p \in MonitorIds :
          (GetAlertConfigurationStatsCall(p) /\ configs[p].exists)
          => /\ stats_out'.kind = "stats"
             /\ stats_out'.is_noisy = configs[p].is_noisy
             /\ stats_out'.noisy_reason = ReportedReason(configs[p].noisy_reason)
             /\ (/\ stats_out.kind = "stats"
                 /\ stats_out.provider_id = p
                 /\ stats_out.is_noisy = configs[p].is_noisy
                 /\ stats_out.noisy_reason = ReportedReason(configs[p].noisy_reason))
                => stats_out' = stats_out]_vars

C25_PromptFromThisCall ==
    /\ \E n \in 0..3 :
          predict_run.steps =
              SubSeq(<<"fetch_historical_data", "_create_prompt", "get_completion">>, 1, n)
    /\ predict_run.steps # <<>>
       => /\ hist_out.returned
          /\ hist_out.searches[1].query = Query(predict_run.alert_data)
    /\ Len(predict_run.steps) = 3
       => /\ Len(predict_run.messages) = 2
          /\ LET prompt == predict_run.messages[2].content
             IN /\ prompt.alert_text = JsonDumps(predict_run.alert_data)
                /\ prompt.alert_stats = JsonDumps(predict_run.alert_stats)
                /\ prompt.historical_data = JsonDumps(hist_out.historical_data)

\* the model was invoked with a prompt holding 2 historical items while the
\* store had grown to 3 documents since the fetch
C25_Witness ==
    /\ predict_run.pc = "invoked"
    /\ Len(hist_out.historical_data) = 2
    /\ Len(store) = 3
    /\ predict_run.messages[2].content.historical_data
         = JsonDumps(hist_out.historical_data)
    /\ predict_run.alert_stats = "stats"

\* C26: every explanation classify returns was computed by an explainer
\* built from the model that is loaded when the call ends, also after a
\* reload has replaced the model
C26_ExplainerOfLoadedModel ==
    classify_out.explanation = "shap" => classify_out.explainer = clf.model

\* C27: a classify call made while a loadable model file exists ends with a
\* model loaded and does not return the "Model not available" sentinel,
\* whatever file events and calls came before
C27_LoadableFileIsLoaded ==
    [][\A p \in MonitorIds :
          (Classify(p) /\ model_file.exists /\ model_file.loadable)
          => /\ clf'.model # 0
             /\ classify_out'.error # "Model not available"]_vars

\* C28: engineer_features finds every statistics key it reads in what
\* get_alert_configuration_stats returns for an existing configuration:
\* classify on a loaded model never ends in a KeyError for one
C28_StatsKeysCovered ==
    [][\A p \in MonitorIds :
          (Classify(p) /\ configs[p].exists /\ clf'.model # 0)
          => /\ \A stats \in GetAlertConfigurationStats(configs, p) :
                   stats.kind = "stats" => FeatureStatsKeys \subseteq stats.keys
             /\ ~(classify_out'.kind = "raised" /\ classify_out'.error = "KeyError")]_vars

\* C29: whatever the interleaving of get_or_create_alert_configuration
\* calls, a provider_id has at most one AlertConfiguration and every finished
\* call returned the id of the configuration of its provider_id
C29_GetOrCreateReturnsTheOne ==
    /\ \A p \in MonitorIds :
          Cardinality({q \in MonitorIds : configs[q].exists /\ configs[q].name = p}) <= 1
    /\ \A s \in Sessions :
          goc[s].out.kind # "none"
          => /\ goc[s].out.kind = "returned"
             /\ goc[s].out.id = goc[s].provider_id
             /\ configs[goc[s].provider_id].exists

\* C30: a step of mark_alert_configuration_as_noisy for provider_id p leaves
\* every Alert, every other configuration and every field of p other than
\* is_noisy and noisy_reason as they were; when no configuration has
\* provider_id p it changes no row and returns None
C30_MarkFrame ==
    [][/\ alerts' = alerts
       /\ \A q \in MonitorIds :
             configs'[q] # configs[q]
             => /\ \E s \in Sessions :
                      /\ sess[s].pc = "loaded"
                      /\ sess[s].provider_id = q
                      /\ sess'[s].pc = "idle"
                      /\ mark_out' = MarkReturned(q, q)
                /\ configs'[q].exists = configs[q].exists
                /\ configs'[q].name = configs[q].name
                /\ \A r \in MonitorIds \ {q} : configs'[r] = configs[r]
       /\ \A s \in Sessions, p \in MonitorIds, l \in SlackBotLabels, a \in BOOLEAN :
             (MarkLoad(s, p, l, a) /\ ~configs[p].exists)
             => /\ mark_out'.returned = "None"
                /\ configs' = configs]_vars

\* feedback on m1 was committed, m2 is as created, and a call for the
\* provider_id without configuration returned None
C30_Witness ==
    /\ mark_out = MarkReturned("m3", "None")
    /\ configs["m1"].is_noisy
    /\ configs["m2"] = NewConfiguration("m2")
    /\ ~configs["m3"].exists

====
